---- MODULE Spec2Model ----
(***************************************************************************)
(* The two line filters of the fwprofile maintenance scripts:              *)
(*   scripts/RemoveTripleBlankCommentLines.py  (removeTripleBlankLine)     *)
(*   UpdateCopyrightNotice.py                  (removeCopyrightNotice)     *)
(* and the main of each, which writes the filter's output to temp.txt and  *)
(* then runs "mv temp.txt <target>" through the shell.                     *)
(*                                                                         *)
(* A line is the sequence of its tokens, the newline included: " *\n" is   *)
(* <<" ", "*", "\n">>.  The empty string "" is <<>>.  `x in line` of the   *)
(* source is membership of the token x in the line.  A file is the         *)
(* sequence of its lines, every line ending in a newline.  The file system *)
(* fs maps the names of the files that exist to their contents; a file     *)
(* name is the sequence of its tokens, a blank being the token " ".        *)
(***************************************************************************)
EXTENDS Integers, Sequences, FiniteSets, TLC

VARIABLES fs, inv, original

vars == <<fs, inv, original>>

(* ------------------------------ bounds -------------------------------- *)

\* Longest input of the collapser, in lines.
MaxLen == 9

\* Longest target of the notice replacer, in lines.
MaxTargetLen == 5

\* Longest licence file, in lines.
MaxPayloadLen == 2

\* Longest target when the file names vary (specification Spec).
MaxFileLen == 2

\* Longest target of each of two concurrent invocations (SpecRace).
MaxRaceLen == 2

(* ------------------------------ data ---------------------------------- *)

\* The invocations: one runs alone in InitTriple, InitNotice and Init.
Procs == {1, 2}

Seqs(S, n) == UNION {[1..k -> S] : k \in 0..n}

\* The literal " *\n" of the collapser.
BlankLine == <<" ", "*", "\n">>

\* Lines of a collapser input: the blank comment line, a code line, and a
\* comment line with a trailing blank (" * \n").
TripleLines == {BlankLine, <<"a", "\n">>, <<" ", "*", " ", "\n">>}

\* Lines of a notice replacer target: two plain lines, a marker line, a
\* closing line, and a one-line notice holding both tokens.
NoticeLines ==
    { <<"x", "\n">>, <<"y", "\n">>,
      <<" ", "*", "@copyright", "\n">>,
      <<" ", "*/", "\n">>,
      <<"/*", "@copyright", "*/", "\n">> }

\* The text licence files are a prefix of; its lines are never scanned.
LicenceText ==
    << <<"new", "@copyright", "\n">>, <<"new", "licence", "\n">>,
       <<"new", "*/", "\n">>, <<"new", "end", "\n">> >>

Payloads ==
    { SubSeq(LicenceText, 1, k) :
        k \in 0..(IF MaxPayloadLen < Len(LicenceText) THEN MaxPayloadLen
                  ELSE Len(LicenceText)) }

tempFileName == <<"temp.txt">>

SourceName == <<"f.c">>

SpacedName == <<"my", " ", "file.c">>

OtherName == <<"g.c">>

LicenceName == <<"licence.txt">>

TargetNames == {SourceName, SpacedName, tempFileName}

\* `token in line`
In(token, line) == \E i \in 1..Len(line) : line[i] = token

(* --------------------------- files and shell -------------------------- *)

\* open(name, mode): 'w' creates the file or truncates it, 'r' leaves it.
openMutTruncates(fsys, name, mode) ==
    [n \in DOMAIN fsys \cup {name} |-> IF n = name THEN <<>> ELSE fsys[n]]

open(fsys, name, mode) ==
    IF mode = "w"
    THEN [n \in DOMAIN fsys \cup {name} |-> IF n = name THEN <<>> ELSE fsys[n]]
    ELSE fsys

\* outFile.write(s): the file is the concatenation of what was written, so
\* writing "" adds no line.
write(buf, s) == IF s = <<>> THEN buf ELSE Append(buf, s)

\* The shell splits the command line at blanks.
RECURSIVE SplitFrom(_, _, _)
SplitFrom(s, i, cur) ==
    IF i > Len(s)
    THEN IF cur = <<>> THEN <<>> ELSE <<cur>>
    ELSE IF s[i] = " "
         THEN IF cur = <<>> THEN SplitFrom(s, i + 1, <<>>)
              ELSE <<cur>> \o SplitFrom(s, i + 1, <<>>)
         ELSE SplitFrom(s, i + 1, Append(cur, s[i]))

ShellWords(cmd) == SplitFrom(cmd, 1, <<>>)

\* mv SOURCE DEST renames; mv of a file onto itself, of a missing file, or
\* with more operands (the last is then no directory) fails and changes
\* nothing.  A mutant that copies instead of renaming:
mvMutCopies(fsys, args) ==
    IF Len(args) = 2 /\ args[1] \in DOMAIN fsys /\ args[1] # args[2]
    THEN [status |-> 0,
          fs |-> [n \in DOMAIN fsys \cup {args[2]} |->
                    IF n = args[2] THEN fsys[args[1]] ELSE fsys[n]]]
    ELSE [status |-> 1, fs |-> fsys]

mv(fsys, args) ==
    IF Len(args) = 2 /\ args[1] \in DOMAIN fsys /\ args[1] # args[2]
    THEN [status |-> 0,
          fs |-> [n \in (DOMAIN fsys \ {args[1]}) \cup {args[2]} |->
                    IF n = args[2] THEN fsys[args[1]] ELSE fsys[n]]]
    ELSE [status |-> 1, fs |-> fsys]

\* cmd = 'mv ' + tempFileName + ' ' + sys.argv[1]
MvCmd(target) == <<"mv", " ">> \o tempFileName \o <<" ">> \o target

\* os.system(cmd): the exit status is returned (and ignored by main).
system(cmd, fsys) ==
    LET w == ShellWords(cmd)
    IN  IF w # <<>> /\ w[1] = <<"mv">> THEN mv(fsys, Tail(w))
        ELSE [status |-> 127, fs |-> fsys]

\* The tokens of a file, and the lines of a sequence of tokens.
RECURSIVE Flatten(_)
Flatten(lines) ==
    IF lines = <<>> THEN <<>> ELSE Head(lines) \o Flatten(Tail(lines))

RECURSIVE SplitLines(_, _)
SplitLines(tokens, cur) ==
    IF tokens = <<>>
    THEN IF cur = <<>> THEN <<>> ELSE <<cur>>
    ELSE IF Head(tokens) = "\n"
         THEN <<Append(cur, "\n")>> \o SplitLines(Tail(tokens), <<>>)
         ELSE SplitLines(Tail(tokens), Append(cur, Head(tokens)))

\* Writing buf at offset 0 of a file that holds old: what old holds beyond
\* the end of buf stays.
Overlay(old, buf) ==
    LET o == Flatten(old)
        b == Flatten(buf)
    IN  SplitLines(b \o SubSeq(o, Len(b) + 1, Len(o)), <<>>)

\* outFile.close(): the buffered lines reach the file the handle is open
\* on, from its offset 0 (the file was opened with 'w', and is empty unless
\* another handle wrote to it since).  name is the name that file has now,
\* <<>> if it has none.
close(fsys, name, buf) ==
    IF name \in DOMAIN fsys
    THEN [fsys EXCEPT ![name] = Overlay(@, buf)]
    ELSE fsys

\* The name of an open file after a command: a successful mv SOURCE DEST
\* gives the file named SOURCE the name DEST, and the file that was named
\* DEST loses its name.
Rebind(name, cmd, status) ==
    LET a == Tail(ShellWords(cmd))
    IN  IF status # 0 \/ Len(a) # 2 \/ name = <<>> THEN name
        ELSE IF name = a[1] THEN a[2]
        ELSE IF name = a[2] THEN <<>>
        ELSE name

(* --------------------------- one invocation --------------------------- *)

Fresh(tool, pc, a1, a2) ==
    [tool |-> tool, pc |-> pc, argv1 |-> a1, argv2 |-> a2,
     inPos |-> 0, licPos |-> 0, skipLine |-> 0,
     line1 |-> <<>>, line2 |-> <<>>, line3 |-> <<>>,
     outFile |-> <<>>, outName |-> <<>>, status |-> -1]

Off == Fresh("none", "off", <<>>, <<>>)

(* ------------------ RemoveTripleBlankCommentLines.py ------------------ *)

\* The test of line 41.  A mutant that looks at two lines only:
IsTripleMutTwo(l1, l2, l3) == l2 = BlankLine /\ l3 = BlankLine

IsTriple(l1, l2, l3) == l1 = BlankLine /\ l2 = BlankLine /\ l3 = BlankLine

\* The countdown a match sets (line 43).  A mutant that sets the number of
\* lines to drop:
SkipOnMatchMutTwo == 3 - 1

SkipOnMatch == 3

\* Lines 48-49.  A mutant whose guard is off by one:
SkipDecrementMutGuard(skip) == IF skip > 1 THEN skip - 1 ELSE skip

SkipDecrement(skip) == IF skip > 0 THEN skip - 1 ELSE skip

\* One iteration of the loop (lines 37-49) on the line read.
TripleStep(st, line) ==
    LET l1 == st.line2
        l2 == st.line3
        l3 == line
        hit == IsTriple(l1, l2, l3)
        out == IF hit THEN write(st.outFile, l1)
               ELSE IF st.skipLine = 0 THEN write(st.outFile, l1)
                    ELSE st.outFile
        skip == IF hit THEN SkipOnMatch ELSE st.skipLine
    IN  [st EXCEPT !.line1 = l1, !.line2 = l2, !.line3 = l3,
                   !.outFile = out, !.skipLine = SkipDecrement(skip),
                   !.inPos = @ + 1]

\* Lines 51-52: the two lines still in the window.  A mutant that lets the
\* countdown suppress them too:
TripleFlushMutSkip(st) ==
    IF st.skipLine = 0
    THEN [st EXCEPT !.outFile = write(write(@, st.line2), st.line3)]
    ELSE IF st.skipLine = 1
         THEN [st EXCEPT !.outFile = write(@, st.line3)]
         ELSE st

TripleFlush(st) ==
    [st EXCEPT !.outFile = write(write(@, st.line2), st.line3)]

RECURSIVE TripleRun(_, _, _)
TripleRun(st, lines, i) ==
    IF i > Len(lines) THEN st
    ELSE TripleRun(TripleStep(st, lines[i]), lines, i + 1)

\* What removeTripleBlankLine writes to its output file for an input.
removeTripleBlankLine(lines) ==
    TripleFlush(TripleRun(Fresh("triple", "loop", <<>>, <<>>), lines, 1)).outFile

\* Lines 30-35.
TripleOpen(p) ==
    /\ inv[p].tool = "triple" /\ inv[p].pc = "start"
    /\ inv[p].argv1 \in DOMAIN fs
    /\ fs' = open(open(fs, inv[p].argv1, "r"), tempFileName, "w")
    /\ inv' = [inv EXCEPT ![p] = [@ EXCEPT !.pc = "loop", !.outName = tempFileName]]
    /\ UNCHANGED original

\* Lines 36-49, one line of the input.
TripleLoop(p) ==
    /\ inv[p].tool = "triple" /\ inv[p].pc = "loop"
    /\ inv[p].inPos < Len(fs[inv[p].argv1])
    /\ inv' = [inv EXCEPT ![p] = TripleStep(@, fs[inv[p].argv1][inv[p].inPos + 1])]
    /\ UNCHANGED <<fs, original>>

\* Lines 51-54, at the end of the input.
TripleFinish(p) ==
    /\ inv[p].tool = "triple" /\ inv[p].pc = "loop"
    /\ inv[p].inPos >= Len(fs[inv[p].argv1])
    /\ inv' = [inv EXCEPT ![p] = [TripleFlush(@) EXCEPT !.pc = "mv", !.outName = <<>>]]
    /\ fs' = close(fs, inv[p].outName, inv'[p].outFile)
    /\ UNCHANGED original

\* Lines 64-66.
TripleMv(p) ==
    /\ inv[p].tool = "triple" /\ inv[p].pc = "mv"
    /\ LET r == system(MvCmd(inv[p].argv1), fs)
       IN  /\ fs' = r.fs
           /\ inv' = [q \in Procs |->
                         IF q = p
                         THEN [inv[q] EXCEPT !.pc = "done", !.status = r.status]
                         ELSE [inv[q] EXCEPT !.outName =
                                  Rebind(@, MvCmd(inv[p].argv1), r.status)]]
    /\ UNCHANGED original

(* ----------------------- UpdateCopyrightNotice.py --------------------- *)

\* `for licLine in licenceFile` (line 38): the lines not read yet.  A mutant
\* that reads the file from its start each time:
LicenceRestMutRewind(lic, pos) == lic

LicenceRest(lic, pos) == SubSeq(lic, pos + 1, Len(lic))

\* Lines 40-42: the closing line ends the skip and is written.  A mutant
\* that ends the skip without writing the line:
NoticeCloseMutSilent(st, line) ==
    IF st.skipLine = 1 /\ In("*/", line)
    THEN [st EXCEPT !.skipLine = 0]
    ELSE st

\* A mutant that does not look at skipLine:
NoticeCloseMutAlways(st, line) ==
    IF In("*/", line)
    THEN [st EXCEPT !.outFile = write(@, line), !.skipLine = 0]
    ELSE st

NoticeClose(st, line) ==
    IF st.skipLine = 1 /\ In("*/", line)
    THEN [st EXCEPT !.outFile = write(@, line), !.skipLine = 0]
    ELSE st

\* Lines 35-39.  A mutant that starts the skip without inserting the
\* licence:
NoticeMarkerMutNoInsert(st, line, lic) ==
    IF In("@copyright", line) THEN [st EXCEPT !.skipLine = 1] ELSE st

NoticeMarker(st, line, lic) ==
    IF In("@copyright", line)
    THEN [st EXCEPT !.skipLine = 1,
                    !.outFile = @ \o LicenceRest(lic, st.licPos),
                    !.licPos = Len(lic)]
    ELSE st

\* Lines 33-34.
NoticeCopy(st, line) ==
    IF st.skipLine = 0 THEN [st EXCEPT !.outFile = write(@, line)] ELSE st

\* One iteration of the loop (lines 33-42) on the line read.
NoticeStep(st, line, lic) ==
    [NoticeClose(NoticeMarker(NoticeCopy(st, line), line, lic), line)
        EXCEPT !.inPos = @ + 1]

RECURSIVE NoticeRun(_, _, _, _)
NoticeRun(st, lines, lic, i) ==
    IF i > Len(lines) THEN st
    ELSE NoticeRun(NoticeStep(st, lines[i], lic), lines, lic, i + 1)

\* What removeCopyrightNotice writes to its output file.
removeCopyrightNotice(lines, lic) ==
    NoticeRun(Fresh("notice", "loop", <<>>, <<>>), lines, lic, 1).outFile

\* Lines 28-31.
NoticeOpen(p) ==
    /\ inv[p].tool = "notice" /\ inv[p].pc = "start"
    /\ inv[p].argv2 \in DOMAIN fs /\ inv[p].argv1 \in DOMAIN fs
    /\ fs' = open(open(open(fs, inv[p].argv2, "r"), inv[p].argv1, "r"),
                  tempFileName, "w")
    /\ inv' = [inv EXCEPT ![p] = [@ EXCEPT !.pc = "loop", !.outName = tempFileName]]
    /\ UNCHANGED original

\* Lines 32-42, one line of the target.
NoticeLoop(p) ==
    /\ inv[p].tool = "notice" /\ inv[p].pc = "loop"
    /\ inv[p].inPos < Len(fs[inv[p].argv1])
    /\ inv' = [inv EXCEPT ![p] =
                 NoticeStep(@, fs[inv[p].argv1][inv[p].inPos + 1], fs[inv[p].argv2])]
    /\ UNCHANGED <<fs, original>>

\* Lines 44-45, at the end of the target.
NoticeFinish(p) ==
    /\ inv[p].tool = "notice" /\ inv[p].pc = "loop"
    /\ inv[p].inPos >= Len(fs[inv[p].argv1])
    /\ inv' = [inv EXCEPT ![p] = [@ EXCEPT !.pc = "mv", !.outName = <<>>]]
    /\ fs' = close(fs, inv[p].outName, inv[p].outFile)
    /\ UNCHANGED original

\* Lines 55-58.
NoticeMv(p) ==
    /\ inv[p].tool = "notice" /\ inv[p].pc = "mv"
    /\ LET r == system(MvCmd(inv[p].argv1), fs)
       IN  /\ fs' = r.fs
           /\ inv' = [q \in Procs |->
                         IF q = p
                         THEN [inv[q] EXCEPT !.pc = "done", !.status = r.status]
                         ELSE [inv[q] EXCEPT !.outName =
                                  Rebind(@, MvCmd(inv[p].argv1), r.status)]]
    /\ UNCHANGED original

(* --------------------------- specifications --------------------------- *)

Alone(st) == [p \in Procs |-> IF p = 1 THEN st ELSE Off]

\* The collapser alone on f.c, every input of up to MaxLen lines.
InitTriple ==
    \E c \in Seqs(TripleLines, MaxLen) :
        /\ fs = (SourceName :> c)
        /\ inv = Alone(Fresh("triple", "start", SourceName, <<>>))
        /\ original = [p \in Procs |-> IF p = 1 THEN c ELSE <<>>]

NextTriple ==
    \E p \in Procs :
        \/ TripleOpen(p)
        \/ TripleLoop(p)
        \/ TripleFinish(p)
        \/ TripleMv(p)

SpecTriple == InitTriple /\ [][NextTriple]_vars

\* The notice replacer alone on f.c, every target of up to MaxTargetLen
\* lines and every licence file of up to MaxPayloadLen lines.
InitNotice ==
    \E c \in Seqs(NoticeLines, MaxTargetLen), lic \in Payloads :
        /\ fs = (SourceName :> c) @@ (LicenceName :> lic)
        /\ inv = Alone(Fresh("notice", "start", SourceName, LicenceName))
        /\ original = [p \in Procs |-> IF p = 1 THEN c ELSE <<>>]

NextNotice ==
    \E p \in Procs :
        \/ NoticeOpen(p)
        \/ NoticeLoop(p)
        \/ NoticeFinish(p)
        \/ NoticeMv(p)

SpecNotice == InitNotice /\ [][NextNotice]_vars

\* One invocation of either tool on a target of any name; temp.txt may be
\* left over from an earlier run.
StaleTemp == << <<"stale", "\n">> >>

Init ==
    \E tool \in {"triple", "notice"}, name \in TargetNames, lic \in Payloads,
       stale \in BOOLEAN :
        \E c \in Seqs(IF tool = "triple" THEN TripleLines ELSE NoticeLines,
                      MaxFileLen) :
            /\ fs = IF stale /\ name # tempFileName
                    THEN (name :> c) @@ (LicenceName :> lic)
                         @@ (tempFileName :> StaleTemp)
                    ELSE (name :> c) @@ (LicenceName :> lic)
            /\ inv = Alone(Fresh(tool, "start", name,
                                 IF tool = "notice" THEN LicenceName ELSE <<>>))
            /\ original = [p \in Procs |-> IF p = 1 THEN c ELSE <<>>]

Next ==
    \E p \in Procs :
        \/ TripleOpen(p)
        \/ TripleLoop(p)
        \/ TripleFinish(p)
        \/ TripleMv(p)
        \/ NoticeOpen(p)
        \/ NoticeLoop(p)
        \/ NoticeFinish(p)
        \/ NoticeMv(p)

Spec == Init /\ [][Next]_vars

\* Two invocations, each of either tool, started in the same working
\* directory on the two targets f.c and g.c; their steps interleave freely
\* (there is no lock), and both use temp.txt.
RaceLines(tool) ==
    IF tool = "triple" THEN {BlankLine, <<"a", "\n">>}
    ELSE {<<"x", "\n">>, <<" ", "*", "@copyright", "\n">>}

InitRace ==
    \E t1, t2 \in {"triple", "notice"}, lic \in Payloads :
        \E c1 \in Seqs(RaceLines(t1), MaxRaceLen),
           c2 \in Seqs(RaceLines(t2), MaxRaceLen) :
            /\ fs = (SourceName :> c1) @@ (OtherName :> c2) @@ (LicenceName :> lic)
            /\ inv = [p \in Procs |->
                        IF p = 1
                        THEN Fresh(t1, "start", SourceName,
                                   IF t1 = "notice" THEN LicenceName ELSE <<>>)
                        ELSE Fresh(t2, "start", OtherName,
                                   IF t2 = "notice" THEN LicenceName ELSE <<>>)]
            /\ original = [p \in Procs |-> IF p = 1 THEN c1 ELSE c2]

SpecRace == InitRace /\ [][Next]_vars

(* ------------------------------ claims -------------------------------- *)

\* The function has returned and main has not yet moved its output.
Returned(p, tool) == inv[p].tool = tool /\ inv[p].pc = "mv"

\* The lines of s at the indices in K, in order.
RECURSIVE Pick(_, _, _)
Pick(s, K, i) ==
    IF i > Len(s) THEN <<>>
    ELSE (IF i \in K THEN <<s[i]>> ELSE <<>>) \o Pick(s, K, i + 1)

Count(s, l) == Cardinality({i \in 1..Len(s) : s[i] = l})

\* Three blank comment lines start at index i of s.
TripleAt(s, i) ==
    /\ i >= 1 /\ i + 2 <= Len(s)
    /\ s[i] = BlankLine /\ s[i + 1] = BlankLine /\ s[i + 2] = BlankLine

NoTriple(s) == \A i \in 1..Len(s) : ~TripleAt(s, i)

\* s is i >= 1 sentinel lines, exactly k blank comment lines, and at least
\* `after` sentinel lines.
Sandwich(s, i, k, after) ==
    /\ i >= 1 /\ after >= 1 /\ i + k + after <= Len(s)
    /\ \A j \in 1..Len(s) : (s[j] = BlankLine) <=> (i < j /\ j <= i + k)

\* The first and last index of the maximal run of blank comment lines that
\* holds index i.
RunLo(s, i) ==
    CHOOSE lo \in 1..i :
        /\ \A j \in lo..i : s[j] = BlankLine
        /\ lo = 1 \/ s[lo - 1] # BlankLine

RunHi(s, i) ==
    CHOOSE hi \in i..Len(s) :
        /\ \A j \in i..hi : s[j] = BlankLine
        /\ hi = Len(s) \/ s[hi + 1] # BlankLine

InLongRun(s, i) ==
    s[i] = BlankLine /\ RunHi(s, i) - RunLo(s, i) + 1 >= 3

\* C1 (as claimed): sentinel lines, exactly three blank comment lines and
\* one or more sentinel lines collapse to the sentinels around exactly one
\* blank comment line.
C1_ExactThreeCollapse ==
    \A p \in Procs :
        Returned(p, "triple") =>
            \A i \in 1..Len(original[p]) :
                Sandwich(original[p], i, 3, 1) =>
                    fs[tempFileName] =
                        SubSeq(original[p], 1, i) \o <<BlankLine>>
                        \o SubSeq(original[p], i + 4, Len(original[p]))

\* C4: an input with no three consecutive blank comment lines is written
\* out unchanged, whatever its length.
C4_NoFalsePositives ==
    \A p \in Procs :
        Returned(p, "triple") /\ NoTriple(original[p]) =>
            fs[tempFileName] = original[p]

C4_Witness ==
    \E p \in Procs :
        /\ Returned(p, "triple") /\ NoTriple(original[p])
        /\ \E i \in 2..(Len(original[p]) - 2) :
              /\ original[p][i] = BlankLine /\ original[p][i + 1] = BlankLine
        /\ fs[tempFileName] = original[p]

Dropped(s) ==
    {i \in 1..Len(s) :
        /\ InLongRun(s, i)
        /\ \/ i = RunHi(s, i) - 1 /\ RunHi(s, i) + 1 <= Len(s)
           \/ i = RunHi(s, i) /\ RunHi(s, i) + 2 <= Len(s)}

C6_SecondPassStable ==
    \A p \in Procs :
        Returned(p, "triple") =>
            LET out == fs[tempFileName]
            IN  /\ Cardinality({i \in 1..Len(out) : TripleAt(out, i)}) <= 1
                      => removeTripleBlankLine(out) = out
                /\ \A i \in 1..Len(original[p]), k \in {3, 4, 6} :
                      Sandwich(original[p], i, k, 1)
                          => removeTripleBlankLine(out) = out

\* C6 (amended): an output with no triple of blank comment lines that a
\* further line follows is a fixed point of the collapser; so is the output
\* for one run of exactly 3 between sentinel lines and for one run of
\* exactly 4 followed by two or more sentinel lines; for one run of exactly
\* 6 followed by two or more sentinel lines a second pass drops two lines.
C6_SecondPassStableWithoutFollowedTriple ==
    \A p \in Procs :
        Returned(p, "triple") =>
            LET out == fs[tempFileName]
                again == removeTripleBlankLine(out)
            IN  /\ (\A i \in 1..Len(out) : ~(TripleAt(out, i) /\ i + 3 <= Len(out)))
                      => again = out
                /\ \A i \in 1..Len(original[p]) :
                      /\ Sandwich(original[p], i, 3, 1) => again = out
                      /\ Sandwich(original[p], i, 4, 2) => again = out
                      /\ Sandwich(original[p], i, 6, 2)
                            => /\ Len(again) = Len(out) - 2
                               /\ Count(again, BlankLine) = 2

C6_Witness ==
    \E p \in Procs :
        /\ Returned(p, "triple")
        /\ \E i \in 1..Len(original[p]) : Sandwich(original[p], i, 4, 2)
        /\ Count(fs[tempFileName], BlankLine) = 2
        /\ removeTripleBlankLine(fs[tempFileName]) = fs[tempFileName]

\* The first line of s that holds the marker.
HasMarker(s) == \E i \in 1..Len(s) : In("@copyright", s[i])

FirstMarker(s) ==
    CHOOSE m \in 1..Len(s) :
        /\ In("@copyright", s[m])
        /\ \A j \in 1..(m - 1) : ~In("@copyright", s[j])

\* s is a prefix without marker, the marker line m without closing token, a
\* body without closing token, the closing line c, a suffix without marker.
RoundTrip(s, m, c) ==
    /\ 1 <= m /\ m < c /\ c <= Len(s)
    /\ \A j \in 1..(m - 1) : ~In("@copyright", s[j])
    /\ In("@copyright", s[m]) /\ ~In("*/", s[m])
    /\ \A j \in (m + 1)..(c - 1) : ~In("*/", s[j])
    /\ In("*/", s[c])
    /\ \A j \in (c + 1)..Len(s) : ~In("@copyright", s[j])

\* C2: for prefix, marker line, body, closing line and suffix the output is
\* the prefix, the marker line, the licence lines in order, the closing line
\* and the suffix; the body is gone.
C2_RoundTrip ==
    \A p \in Procs :
        Returned(p, "notice") =>
            \A m, c \in 1..Len(original[p]) :
                RoundTrip(original[p], m, c) =>
                    fs[tempFileName] =
                        SubSeq(original[p], 1, m) \o fs[inv[p].argv2]
                        \o SubSeq(original[p], c, Len(original[p]))

C2_Witness ==
    \E p \in Procs :
        /\ Returned(p, "notice")
        /\ Len(fs[inv[p].argv2]) = 2
        /\ \E m, c \in 2..(Len(original[p]) - 1) :
              /\ RoundTrip(original[p], m, c) /\ c > m + 1
              /\ original[p][m + 1] # original[p][1]
              /\ Len(fs[tempFileName]) = Len(original[p]) - (c - m - 1) + 2

\* C3 (as claimed): whatever the first marker line holds besides the
\* marker, it is in the output exactly once, followed at once by the
\* licence lines.  (Occurrences are counted by content, for targets that
\* hold this content in one line only.)
C3_MarkerLineOnce ==
    \A p \in Procs :
        Returned(p, "notice") /\ HasMarker(original[p]) =>
            LET m == FirstMarker(original[p])
                out == fs[tempFileName]
                lic == fs[inv[p].argv2]
            IN  Count(original[p], original[p][m]) = 1 =>
                    /\ Count(out, original[p][m]) = 1
                    /\ Len(out) >= m + Len(lic)
                    /\ out[m] = original[p][m]
                    /\ SubSeq(out, m + 1, m + Len(lic)) = lic

\* C7: with a marker and no closing token at or after the first marker
\* line, the output is the target up to that line and the licence lines,
\* nothing else, and the run ends as any other: mv puts it in place.
Unterminated(s) ==
    /\ HasMarker(s)
    /\ \A j \in FirstMarker(s)..Len(s) : ~In("*/", s[j])

C7_UnterminatedBlock ==
    \A p \in Procs :
        inv[p].tool = "notice" /\ Unterminated(original[p]) =>
            LET expected == SubSeq(original[p], 1, FirstMarker(original[p]))
                            \o fs[inv[p].argv2]
            IN  /\ inv[p].pc = "mv" => fs[tempFileName] = expected
                /\ inv[p].pc = "done" =>
                      inv[p].status = 0 /\ fs[inv[p].argv1] = expected

C7_Witness ==
    \E p \in Procs :
        /\ Returned(p, "notice") /\ Unterminated(original[p])
        /\ FirstMarker(original[p]) + 2 <= Len(original[p])
        /\ \E j \in (FirstMarker(original[p]) + 1)..Len(original[p]) :
              In("@copyright", original[p][j])
        /\ Len(fs[inv[p].argv2]) = 2
        /\ Len(fs[tempFileName]) = FirstMarker(original[p]) + 2

\* The iteration that invocation p runs in this step reads a marker line.
ReadsMarker(p) ==
    /\ inv[p].tool = "notice" /\ inv[p].pc = "loop"
    /\ inv[p].inPos < Len(fs[inv[p].argv1])
    /\ inv'[p].inPos = inv[p].inPos + 1
    /\ In("@copyright", fs[inv[p].argv1][inv[p].inPos + 1])

\* What the iteration on `line` wrote is the line or nothing, then
\* `payload`, then the line or nothing.
WroteAround(p, line, payload) ==
    \E pre, post \in {<<>>, <<line>>} :
        inv'[p].outFile = inv[p].outFile \o pre \o payload \o post

\* C8 (as claimed): every iteration on a marker line, the first and every
\* later one, writes all the licence lines in order.
C8_PayloadAtEveryMarker ==
    [][\A p \in Procs :
          ReadsMarker(p) =>
              WroteAround(p, fs[inv[p].argv1][inv[p].inPos + 1], fs[inv[p].argv2])]_vars

\* C8 (amended): the iteration on the first marker line writes that line
\* and then all the licence lines in order, once; the iteration on a later
\* marker line writes no licence line.
C8_PayloadAtFirstMarkerOnly ==
    [][\A p \in Procs :
          ReadsMarker(p) =>
              LET line == fs[inv[p].argv1][inv[p].inPos + 1]
                  lic == fs[inv[p].argv2]
              IN  IF inv[p].inPos + 1 = FirstMarker(fs[inv[p].argv1])
                  THEN \E post \in {<<>>, <<line>>} :
                          inv'[p].outFile = inv[p].outFile \o <<line>> \o lic \o post
                  ELSE WroteAround(p, line, <<>>)]_vars

C8_Witness ==
    \E p \in Procs :
        /\ inv[p].tool = "notice" /\ inv[p].pc = "loop"
        /\ Len(fs[inv[p].argv2]) = 2
        /\ inv[p].inPos >= 2
        /\ In("@copyright", original[p][inv[p].inPos])
        /\ FirstMarker(original[p]) < inv[p].inPos
        /\ Count(inv[p].outFile, fs[inv[p].argv2][1]) = 1

\* C9 (as claimed): for every target name, the target holds its original
\* content at every step until the move has succeeded.
C9_TargetUntouchedUntilMove ==
    \A p \in Procs :
        inv[p].pc # "off" /\ inv[p].status # 0 =>
            /\ inv[p].argv1 \in DOMAIN fs
            /\ fs[inv[p].argv1] = original[p]

\* C9 (amended): for every target name other than temp.txt, the target
\* holds its original content at every step until the move has succeeded.
C9_OtherTargetUntouchedUntilMove ==
    \A p \in Procs :
        inv[p].pc # "off" /\ inv[p].status # 0 /\ inv[p].argv1 # tempFileName =>
            /\ inv[p].argv1 \in DOMAIN fs
            /\ fs[inv[p].argv1] = original[p]

C9_Witness ==
    \E p \in Procs :
        /\ inv[p].pc = "mv" /\ inv[p].argv1 # tempFileName
        /\ fs[tempFileName] # original[p]
        /\ fs[inv[p].argv1] = original[p]
        /\ original[p] # <<>>

\* What the tool of invocation p makes of the target's original content.
Transformed(p) ==
    IF inv[p].tool = "triple" THEN removeTripleBlankLine(original[p])
    ELSE removeCopyrightNotice(original[p], fs[inv[p].argv2])

BothDone == \A p \in Procs : inv[p].pc = "done"

\* What the target of p may hold when both are done: its own transformed
\* content, the other's, or one written over the other.
RaceOutcomes(p, q) ==
    { Transformed(p), Transformed(q),
      Overlay(Transformed(p), Transformed(q)),
      Overlay(Transformed(q), Transformed(p)) }

\* C11: two concurrent invocations on different targets share temp.txt
\* without a lock, and some interleaving (C11_Witness) ends with a target
\* that does not hold its own transformed content.  In every interleaving,
\* when both are done: a target whose mv failed is unmodified, a target
\* whose mv succeeded holds its own transformed content, the other's, or a
\* mix of the two; at least one mv succeeded, and if both did, both targets
\* are right.
C11_TempFileRace ==
    BothDone =>
        /\ \A p, q \in Procs :
              p # q =>
                  /\ inv[p].argv1 \in DOMAIN fs
                  /\ inv[p].status # 0 => fs[inv[p].argv1] = original[p]
                  /\ inv[p].status = 0 => fs[inv[p].argv1] \in RaceOutcomes(p, q)
        /\ \E p \in Procs : inv[p].status = 0
        /\ (\A p \in Procs : inv[p].status = 0) =>
              \A p \in Procs : fs[inv[p].argv1] = Transformed(p)

C11_Witness ==
    /\ BothDone
    /\ \E p, q \in Procs :
          /\ p # q
          /\ Transformed(p) # original[p] /\ Transformed(q) # original[q]
          /\ inv[p].status # 0 /\ fs[inv[p].argv1] = original[p]
          /\ fs[inv[q].argv1] # Transformed(q)
          /\ fs[inv[q].argv1] # Transformed(p)

\* Invocation p runs iteration n of the collapser's loop in this step.
TripleIteration(p, n) ==
    /\ inv[p].tool = "triple" /\ inv[p].pc = "loop"
    /\ inv[p].inPos = n - 1 /\ inv'[p].inPos = n
    /\ inv'[p].pc = "loop"

\* The step wrote one line, or none.
WroteLine(p, l) == inv'[p].outFile = Append(inv[p].outFile, l)

WroteNothing(p) == inv'[p].outFile = inv[p].outFile

\* C12: iteration n decides line n - 2.  Of a maximal run of N >= 3 blank
\* comment lines that two further lines follow, the iterations write the
\* first N - 2 lines and drop the last two.  A match leaves the countdown
\* at 2 (set to 3, decremented in the same iteration); an iteration that
\* does not match writes line1 exactly when the countdown is 0, so the
\* countdown suppresses the next two iterations that do not match.
C12_TwoLinesPerRun ==
    [][\A p \in Procs : \A n \in 1..Len(original[p]) :
          TripleIteration(p, n) =>
              LET s == original[p]
                  i == n - 2
                  hit == TripleAt(s, i)
              IN  /\ hit => WroteLine(p, s[i]) /\ inv'[p].skipLine = 2
                  /\ ~hit /\ inv[p].skipLine > 0 =>
                        /\ WroteNothing(p)
                        /\ inv'[p].skipLine = inv[p].skipLine - 1
                  /\ ~hit /\ inv[p].skipLine = 0 /\ i >= 1 =>
                        WroteLine(p, s[i]) /\ inv'[p].skipLine = 0
                  /\ inv[p].skipLine =
                        IF TripleAt(s, i - 1) THEN 2
                        ELSE IF TripleAt(s, i - 2) THEN 1 ELSE 0
                  /\ i >= 1 /\ InLongRun(s, i) /\ RunHi(s, i) + 2 <= Len(s) =>
                        IF i <= RunHi(s, i) - 2 THEN WroteLine(p, s[i])
                        ELSE WroteNothing(p)]_vars

C12_Witness ==
    \E p \in Procs :
        /\ inv[p].tool = "triple" /\ inv[p].pc = "loop"
        /\ inv[p].inPos >= 3 /\ inv[p].skipLine = 0
        /\ \E k \in 4..Len(original[p]) :
              /\ Sandwich(original[p], 1, k, 2)
              /\ inv[p].inPos = 1 + k + 2
              /\ inv[p].outFile = SubSeq(original[p], 1, k - 1)

\* The number of blank comment lines that end at index i of s.
BlanksEndingAt(s, i) ==
    IF i >= 1 /\ s[i] = BlankLine THEN i - RunLo(s, i) + 1 ELSE 0

RECURSIVE IsSubseq(_, _)
IsSubseq(t, s) ==
    IF t = <<>> THEN TRUE
    ELSE IF s = <<>> THEN FALSE
    ELSE IF Head(t) = Head(s) THEN IsSubseq(Tail(t), Tail(s))
    ELSE IsSubseq(t, Tail(s))

NotBlank(l) == l # BlankLine

\* t is s with some blank comment lines left out and nothing else changed.
OnlyBlanksDropped(t, s) ==
    /\ IsSubseq(t, s)
    /\ SelectSeq(t, NotBlank) = SelectSeq(s, NotBlank)

\* C14: the output is the input with some blank comment lines left out:
\* nothing is added, duplicated or reordered and every other line is kept.
\* It is so after every iteration, for the lines decided so far (iteration
\* n decides line n - 2): a line the countdown suppresses is a blank
\* comment line.
C14_OnlyBlankLinesDropped ==
    \A p \in Procs :
        /\ Returned(p, "triple") => OnlyBlanksDropped(fs[tempFileName], original[p])
        /\ inv[p].tool = "triple" /\ inv[p].pc = "loop" =>
              OnlyBlanksDropped(inv[p].outFile,
                                SubSeq(original[p], 1, inv[p].inPos - 2))

C14_Witness ==
    \E p \in Procs :
        /\ Returned(p, "triple")
        /\ Len(fs[tempFileName]) = Len(original[p]) - 4
        /\ Count(original[p], BlankLine) = 6
        /\ Count(fs[tempFileName], BlankLine) = 2

\* C15: a target without marker is written out line for line, lines with
\* the closing token included, and the licence file is not read, whatever
\* it holds.
C15_MarkerFreeUnchanged ==
    \A p \in Procs :
        inv[p].tool = "notice" /\ ~HasMarker(original[p]) =>
            /\ inv[p].pc = "loop" =>
                  /\ inv[p].outFile = SubSeq(original[p], 1, inv[p].inPos)
                  /\ inv[p].skipLine = 0 /\ inv[p].licPos = 0
            /\ inv[p].pc = "mv" =>
                  fs[tempFileName] = original[p] /\ inv[p].licPos = 0

C15_Witness ==
    \E p \in Procs :
        /\ Returned(p, "notice") /\ ~HasMarker(original[p])
        /\ Len(original[p]) >= 3
        /\ \E i \in 1..(Len(original[p]) - 1) : In("*/", original[p][i])
        /\ Len(fs[inv[p].argv2]) = 2
        /\ fs[tempFileName] = original[p]

====
